---- MODULE Spec2Model ----
(***************************************************************************)
(* A model of src/compiler.rs: the single-pass recursive-descent           *)
(* parser / LLVM code generator of minimal_language.                       *)
(*                                                                         *)
(* The Rust call stack is the variable `stack` (one frame per active       *)
(* compile_* call, with its position `pc` and its locals); every action    *)
(* is one Rust function and advances the topmost frame by the code between *)
(* two token reads or calls.  The module under construction is `funcs`     *)
(* (functions, their basic blocks and instructions) and `globals`.         *)
(* The token stream is the input: the lexer hands it over fragment by      *)
(* fragment (LexFragment), so that every stream over the chosen vocabulary *)
(* up to MaxFragments fragments is explored.                               *)
(***************************************************************************)
EXTENDS Integers, Sequences, FiniteSets, TLC

VARIABLES
    tokens,     \* TokIter.tokens: the part of the stream lexed so far
    eof,        \* TRUE once the stream is known to end at Len(tokens)
    vocab,      \* which vocabulary the stream is written in (fixed per run)
    nfrag,      \* number of fragments lexed so far
    index,      \* TokIter.index
    hiwater,    \* furthest value index has had
    stack,      \* the Rust call stack, innermost frame last
    ret,        \* value returned by the call that returned last
    last,       \* the frame of the call that returned last, as it was on return
    varmap,     \* compile: varmap (the global environment)
    envs,       \* the live local_varmap objects; frames refer to them by position
    funcs,      \* the module: functions in the order LLVMAddFunction was called
    globals,    \* the module: global strings
    bpos,       \* block the builder of the function being compiled is positioned at
    nid,        \* next fresh instruction id
    outcome,    \* "running", "ok" (Ok(module)), "err" (Err(ParseError)), "panic"
    error       \* which error or panic

vars == <<tokens, eof, vocab, nfrag, index, hiwater, stack, ret, last, varmap,
          envs, funcs, globals, bpos, nid, outcome, error>>

(***************************************************************************)
(* Bounds of the exploration.                                              *)
(***************************************************************************)
MaxFragments == 6
\* the same for the runs that follow every stream to its end
MaxLiveFragments == 4

(***************************************************************************)
(* Tokens (crate::tokens, used by compiler.rs lines 9, 15, 92, 381, 436).  *)
(* k is the TokenType / Literal variant, s the text, j the Particle's      *)
(* joined flag or the Bool literal's value, bits the set of bit positions  *)
(* that are 1 in an Integer literal's i128 two's-complement pattern.       *)
(***************************************************************************)
Id(s) == [k |-> "Ident", s |-> s, j |-> FALSE, bits |-> {}]
Particle(c, joined) == [k |-> "Particle", s |-> c, j |-> joined, bits |-> {}]
StringLit(s) == [k |-> "String", s |-> s, j |-> FALSE, bits |-> {}]
IntegerLit(b) == [k |-> "Integer", s |-> "", j |-> FALSE, bits |-> b]
BoolLit(b) == [k |-> "Bool", s |-> "", j |-> b, bits |-> {}]
CharLit == [k |-> "Char", s |-> "c", j |-> FALSE, bits |-> {}]
FloatLit == [k |-> "Float", s |-> "", j |-> FALSE, bits |-> {}]

IsLiteral(tok) == tok.k \in {"String", "Char", "Integer", "Float", "Bool"}

(***************************************************************************)
(* IR types and values, as tagged tuples.                                  *)
(***************************************************************************)
VoidTy == <<"void">>
PtrTy == <<"ptr">>
IntTy(w) == <<"int", w>>
FnTy(r, params, vararg) == <<"fn", r, params, vararg>>
IsFnTy(t) == t[1] = "fn"
IsIntTy(t) == t[1] = "int"

FnVal(i) == <<"fn", i>>
ParamVal(f, i) == <<"param", f, i>>
RegVal(i) == <<"reg", i>>
GlobalStr(i) == <<"gstr", i>>
ConstInt(t, b) == <<"const", t, b>>
UndefVal == <<"undef">>

Sym(t, v, a) == [ty |-> t, val |-> v, alloca |-> a]

EmptyMap == [n \in {} |-> 0]
Insert(m, key, v) == [n \in DOMAIN m \cup {key} |-> IF n = key THEN v ELSE m[n]]

Front(q) == SubSeq(q, 1, Len(q) - 1)
Last(q) == q[Len(q)]

(***************************************************************************)
(* ty_str_to_ty: the type keyword's IR type, or "none" for Err.            *)
(***************************************************************************)
TypeKeywords == {"void", "bool", "ptr", "i8", "i32", "i64", "i128"}

ty_str_to_ty(ty) ==
    CASE ty = "void" -> VoidTy
      [] ty = "bool" -> IntTy(1)
      [] ty = "ptr" -> PtrTy
      [] ty = "i8" -> IntTy(8)
      [] ty = "i32" -> IntTy(32)
      [] ty = "i64" -> IntTy(64)
      [] ty = "i128" -> IntTy(128)
      [] OTHER -> <<"none">>

(***************************************************************************)
(* TokIter: this() is Ok while index is inside the stream, next() steps.   *)
(***************************************************************************)
ThisOk == index < Len(tokens)
This == tokens[index + 1]
IsIdent == ThisOk /\ This.k = "Ident"
IsIdentOf(s) == IsIdent /\ This.s = s

\* A step may run once the token under the cursor, or the stream's end there, is known.
Ready == ThisOk \/ eof
Running == outcome = "running" /\ stack # <<>>
Top == Last(stack)

(***************************************************************************)
(* The state as a record, and the updates the steps are built from.        *)
(***************************************************************************)
S ==
    [index |-> index, hiwater |-> hiwater, stack |-> stack, ret |-> ret,
     last |-> last, varmap |-> varmap, envs |-> envs, funcs |-> funcs, globals |-> globals,
     bpos |-> bpos, nid |-> nid, outcome |-> outcome, error |-> error]

Apply(s) ==
    /\ index' = s.index
    /\ hiwater' = s.hiwater
    /\ outcome' = s.outcome
    /\ error' = s.error
    /\ stack' = s.stack
    /\ ret' = s.ret
    /\ last' = s.last
    /\ varmap' = s.varmap
    /\ envs' = s.envs
    /\ funcs' = s.funcs
    /\ globals' = s.globals
    /\ bpos' = s.bpos
    /\ nid' = s.nid
    /\ UNCHANGED <<tokens, eof, vocab, nfrag>>

\* Err(..) propagated by `?` through every caller up to compile's caller.
Fail(s, kind) == [s EXCEPT !.outcome = "err", !.error = kind, !.stack = <<>>]
\* panic!, unwrap, expect, unreachable!, unimplemented!: the process unwinds.
Panic(s, kind) == [s EXCEPT !.outcome = "panic", !.error = kind, !.stack = <<>>]

\* What ident_next! / expect_ident! return when the token is not the wanted one.
TokErr(s) == IF ThisOk THEN Fail(s, "ParseError") ELSE Fail(s, "UnexpectedEOF")

\* tokens.next()
Next1(s) == [s EXCEPT !.index = @ + 1,
                      !.hiwater = IF s.index + 1 > @ THEN s.index + 1 ELSE @]
\* the cursor stepped back by two
RewindTwo(s) == [s EXCEPT !.index = @ - 2]

\* tokens.index -= 1
Rewind(s) == [s EXCEPT !.index = @ - 1]

Goto(s, pc) == [s EXCEPT !.stack[Len(s.stack)].pc = pc]
Call(s, fr) == [s EXCEPT !.stack = Append(@, fr)]
Return(s, v) == [s EXCEPT !.stack = Front(@), !.ret = v, !.last = Last(s.stack)]
\* the topmost frame's work is taken over by frame fr
Replace(s, fr) == [s EXCEPT !.stack[Len(s.stack)] = fr]

\* LLVMBuild*: append one instruction to block b of function f.
EmitAt(s, f, b, op, args) ==
    [s EXCEPT !.funcs[f].blocks[b].instrs =
                  Append(@, [op |-> op, id |-> s.nid, args |-> args]),
              !.nid = @ + 1]
\* LLVMAppendBasicBlock
AppendBlock(s, f, label) ==
    [s EXCEPT !.funcs[f].blocks = Append(@, [label |-> label, instrs |-> <<>>])]
\* LLVMAddFunction
AddFunction(s, name, ty, blocks) ==
    [s EXCEPT !.funcs = Append(@, [name |-> name, ty |-> ty, blocks |-> blocks])]

EntryBlock == <<[label |-> "entry", instrs |-> <<>>]>>

(***************************************************************************)
(* get_var: the local map first, then the global one.                      *)
(***************************************************************************)
HasVar(s, lv, name) == name \in DOMAIN s.envs[lv] \/ name \in DOMAIN s.varmap
get_var(s, lv, name) ==
    IF name \in DOMAIN s.envs[lv] THEN s.envs[lv][name] ELSE s.varmap[name]

(***************************************************************************)
(* compile (lines 42-78): the loop over the top-level forms, then the      *)
(* synthesized call of `main` in the entry function (function 1, block 1). *)
(***************************************************************************)
FnSigFrame ==
    [f |-> "fn_sig", pc |-> "fn", name |-> "", ty |-> <<>>, aty |-> "",
     args |-> <<>>, vararg |-> FALSE, arg_at |-> <<>>]

compile_finish(s) ==
    IF "main" \notin DOMAIN s.varmap
    THEN Panic(s, "unwrap on None: no main")
    ELSE LET fun == s.varmap["main"]
             c == EmitAt(s, 1, 1, "call", <<fun.ty, fun.val, <<>>>>)
             r == EmitAt(c, 1, 1, "retvoid", <<>>)
         IN [r EXCEPT !.outcome = "ok", !.stack = <<>>]

\* form_at records where each top-level form starts
FormAt(s) == [s EXCEPT !.stack[Len(s.stack)].form_at = Append(@, s.index)]

compile ==
    /\ Running /\ Ready /\ Top.f = "compile"
    /\ Apply(IF ~ThisOk THEN compile_finish(S)
             ELSE IF This.k # "Ident" THEN Fail(S, "ParseError")
             ELSE CASE This.s = "const" ->
                         Call(FormAt(S), [f |-> "compile_global_const", pc |-> "const",
                                          name |-> ""])
                    [] This.s = "extern" ->
                         Call(FormAt(S), [f |-> "compile_extern", pc |-> "extern"])
                    [] This.s = "fn" ->
                         Call(Call(FormAt(S),
                                   [f |-> "compile_fn", pc |-> "sig", fi |-> 0,
                                    lv |-> 0, ty |-> <<>>, body_at |-> <<>>,
                                    end_nid |-> 0]),
                              FnSigFrame)
                    [] OTHER -> Fail(S, "ParseError"))

(***************************************************************************)
(* compile_global_const (lines 85-104)                                     *)
(***************************************************************************)
compile_global_const ==
    /\ Running /\ Ready /\ Top.f = "compile_global_const"
    /\ Apply(CASE Top.pc = "const" ->
                    IF IsIdentOf("const") THEN Goto(Next1(S), "type") ELSE TokErr(S)
               [] Top.pc = "type" ->
                    IF IsIdent THEN Goto(Next1(S), "name") ELSE TokErr(S)
               [] Top.pc = "name" ->
                    IF IsIdent
                    THEN Goto([Next1(S) EXCEPT !.stack[Len(stack)].name = This.s], "is")
                    ELSE TokErr(S)
               [] Top.pc = "is" ->
                    IF IsIdentOf("is") THEN Goto(Next1(S), "val") ELSE TokErr(S)
               [] Top.pc = "val" ->
                    IF ThisOk /\ This.k = "String"
                    THEN LET p == GlobalStr(Len(globals) + 1)
                             g == [Next1(S) EXCEPT
                                     !.globals = Append(@, [name |-> Top.name,
                                                            val |-> This.s]),
                                     !.varmap = Insert(@, Top.name,
                                                       Sym(PtrTy, p, FALSE))]
                         IN Return(g, <<>>)
                    ELSE TokErr(S))

(***************************************************************************)
(* fn_sig (lines 106-158).  The two parameter loops (lines 112-129 and     *)
(* 136-153) are the same code; they differ in the `ty` they return.        *)
(***************************************************************************)
\* the tuple (name, ty, args, vararg) fn_sig returns
Sig(fr) == <<fr.name, fr.ty, fr.args, fr.vararg>>

fn_sig ==
    /\ Running /\ Ready /\ Top.f = "fn_sig"
    /\ Apply(IF ~IsIdent THEN TokErr(S)
             ELSE CASE Top.pc = "fn" ->
                         IF This.s = "fn" THEN Goto(Next1(S), "name") ELSE TokErr(S)
                    [] Top.pc = "name" ->
                         Goto([Next1(S) EXCEPT !.stack[Len(stack)].name = This.s], "n")
                    [] Top.pc = "n" ->
                         IF This.s \in {"do", "end"} THEN Return(Next1(S), Sig(Top))
                         ELSE IF This.s = "with" THEN Goto(Next1(S), "vararg")
                         ELSE Goto(Rewind(Next1(S)), "ty")
                    [] Top.pc = "ty" ->
                         Goto([Next1(S) EXCEPT !.stack[Len(stack)].ty = <<This.s>>], "n2")
                    [] Top.pc = "n2" ->
                         IF This.s \in {"do", "end"} THEN Return(Next1(S), Sig(Top))
                         ELSE IF This.s = "with" THEN Goto(Next1(S), "vararg")
                         ELSE Goto(Next1(S), "n2err")
                    [] Top.pc = "n2err" ->
                         \* Err(..).at(tokens.this()?.loc), the cursor on an Ident
                         Fail(S, "ParseError")
                    [] Top.pc = "vararg" ->
                         IF This.s = "vararg"
                         THEN Goto([Next1(S) EXCEPT !.stack[Len(stack)].vararg = TRUE],
                                   "argty")
                         ELSE Goto(Rewind(Next1(S)), "argty")
                    [] Top.pc = "argty" ->
                         Goto([Next1(S) EXCEPT !.stack[Len(stack)] =
                                  [Top EXCEPT !.aty = This.s,
                                              !.arg_at = Append(@, index)]],
                              "argname")
                    [] Top.pc = "argname" ->
                         Goto([Next1(S) EXCEPT !.stack[Len(stack)].args =
                                                  Append(@, <<Top.aty, This.s>>)],
                              "argn")
                    [] Top.pc = "argn" ->
                         IF This.s \in {"do", "end"} THEN Return(Next1(S), Sig(Top))
                         ELSE Goto(Rewind(Next1(S)), "argty"))

(***************************************************************************)
(* compile_extern (lines 175-187)                                          *)
(***************************************************************************)
RetKeyword(sig) == IF sig[2] = <<>> THEN "void" ELSE sig[2][1]
ParamTypes(args) == [i \in 1..Len(args) |-> ty_str_to_ty(args[i][1])]
BadType(t) == t = <<"none">>
AnyBadParam(args) == \E i \in 1..Len(args) : BadType(ParamTypes(args)[i])
SigFnTy(sig) == FnTy(ty_str_to_ty(RetKeyword(sig)), ParamTypes(sig[3]), sig[4])

compile_extern ==
    /\ Running /\ Ready /\ Top.f = "compile_extern"
    /\ Apply(CASE Top.pc = "extern" ->
                    IF IsIdentOf("extern")
                    THEN Call(Goto(Next1(S), "sig"), FnSigFrame)
                    ELSE TokErr(S)
               [] Top.pc = "sig" ->
                    IF BadType(ty_str_to_ty(RetKeyword(ret))) \/ AnyBadParam(ret[3])
                    THEN Fail(S, "ParseError")
                    ELSE LET a == AddFunction(S, ret[1], SigFnTy(ret), <<>>)
                             v == [a EXCEPT !.varmap =
                                     Insert(@, ret[1],
                                            Sym(SigFnTy(ret), FnVal(Len(a.funcs)),
                                                FALSE))]
                         IN Return(v, <<>>))

(***************************************************************************)
(* compile_fn (lines 189-228)                                              *)
(***************************************************************************)
RECURSIVE ParamEnv(_, _, _)
\* lines 206-209: parameters 1..n of function fi inserted in order
ParamEnv(args, fi, n) ==
    IF n = 0 THEN EmptyMap
    ELSE Insert(ParamEnv(args, fi, n - 1), args[n][2],
                Sym(ty_str_to_ty(args[n][1]), ParamVal(fi, n - 1), FALSE))

StatementFrame(lv, fi) ==
    [f |-> "compile_statement", pc |-> "start", lv |-> lv, fi |-> fi, kw |-> "",
     at |-> 0, env0 |-> EmptyMap, varmap0 |-> EmptyMap]

\* lines 221-223: the ret-void compile_fn appends at the closing `end`
ImplicitRet(s, fr) ==
    IF fr.ty = <<>> THEN EmitAt(s, fr.fi, s.bpos, "retvoid", <<>>) ELSE s

compile_fn ==
    /\ Running /\ Ready /\ Top.f = "compile_fn"
    /\ Apply(CASE Top.pc = "sig" ->
                    IF BadType(ty_str_to_ty(RetKeyword(ret))) THEN Fail(S, "ParseError")
                    ELSE IF AnyBadParam(ret[3])
                    THEN Panic(S, "unwrap on Err: parameter type")
                    ELSE LET a == AddFunction(S, ret[1], SigFnTy(ret), EntryBlock)
                             fi == Len(a.funcs)
                             v == [a EXCEPT
                                     !.varmap = Insert(@, ret[1],
                                                       Sym(SigFnTy(ret), FnVal(fi), FALSE)),
                                     !.envs = Append(@, ParamEnv(ret[3], fi,
                                                                 Len(ret[3]))),
                                     !.bpos = 1,
                                     !.stack[Len(stack)] =
                                         [@ EXCEPT !.fi = fi, !.lv = Len(envs) + 1,
                                                   !.ty = ret[2]]]
                         IN Goto(v, "body")
               [] Top.pc = "body" ->
                    IF ~ThisOk THEN Fail(S, "UnexpectedEOF")
                    ELSE IF ~IsIdentOf("end")
                    THEN Call([S EXCEPT !.stack[Len(stack)].body_at = Append(@, index)],
                              StatementFrame(Top.lv, Top.fi))
                    ELSE LET r == Next1(ImplicitRet(S, Top))
                         IN Return([r EXCEPT !.envs = Front(@),
                                             !.stack[Len(stack)].end_nid = nid],
                                   <<>>))

(***************************************************************************)
(* The frames of compile_if, compile_while and compile_fn_call.  Beside    *)
(* the Rust locals a frame keeps a record of what the call did (at,        *)
(* cond_at, cont_at, close, then_at, else_at, then_end, else_end, body_at, *)
(* arg_at, chain and the final contents of its cloned environments),       *)
(* which `last` shows once the call has returned.                          *)
(***************************************************************************)
IfFrame(lv, fi, elif) ==
    [f |-> "compile_if", pc |-> "start", lv |-> lv, fi |-> fi, elif |-> elif,
     cond_val |-> <<>>, then_block |-> 0, else_block |-> 0, continue_block |-> 0,
     then_lv |-> 0, else_lv |-> 0, does_return |-> FALSE, continuator |-> "",
     cond_at |-> 0, cont_at |-> 0, close |-> 0, then_at |-> <<>>, else_at |-> <<>>,
     then_end |-> 0, else_end |-> 0,
     then_env |-> EmptyMap, else_env |-> EmptyMap, chain |-> <<>>]

WhileFrame(lv, fi) ==
    [f |-> "compile_while", pc |-> "start", lv |-> lv, fi |-> fi,
     cond_block |-> 0, body_block |-> 0, continue_block |-> 0, body_lv |-> 0,
     does_return |-> FALSE, body_at |-> <<>>, body_env |-> EmptyMap]

CallFrame(lv, fi, ret_name) ==
    [f |-> "compile_fn_call", pc |-> "start", lv |-> lv, fi |-> fi,
     ret_name |-> ret_name, particle |-> FALSE, name |-> "", args |-> <<>>,
     at |-> 0, arg_at |-> <<>>]

(***************************************************************************)
(* compile_statement (lines 230-246).  kw, at, env0 and varmap0 record the *)
(* statement's keyword, where it starts and the two environments as they   *)
(* were when it started.                                                   *)
(***************************************************************************)
Emit(s, fi, op, args) == EmitAt(s, fi, s.bpos, op, args)

ExprFrame(lv, fi, ret_name) ==
    [f |-> "compile_expression", pc |-> "start", lv |-> lv, fi |-> fi,
     ret_name |-> ret_name, name |-> ""]

SubFrame(f, pc, lv, fi) ==
    [f |-> f, pc |-> pc, lv |-> lv, fi |-> fi, ty |-> <<>>, name |-> "",
     slot |-> <<>>, value |-> <<>>]

\* line 237: the value compile_statement returns for a `return` statement
ReturnDiverges == TRUE

compile_statement ==
    /\ Running /\ Ready /\ Top.f = "compile_statement"
    /\ Apply(CASE Top.pc = "start" ->
                    IF ~IsIdent THEN TokErr(S)
                    ELSE LET kw == This.s
                             m == [Next1(S) EXCEPT
                                     !.stack[Len(stack)] =
                                         [@ EXCEPT !.kw = kw, !.at = index,
                                                   !.env0 = envs[Top.lv],
                                                   !.varmap0 = varmap]]
                             lv == Top.lv
                             fi == Top.fi
                         IN (CASE kw = "var" ->
                                   Call(Goto(m, "after"),
                                        SubFrame("compile_var_create", "ty", lv, fi))
                              [] kw = "update" ->
                                   Call(Goto(m, "after"),
                                        SubFrame("compile_var_update", "name", lv, fi))
                              [] kw = "let" ->
                                   Call(Goto(m, "after"),
                                        SubFrame("compile_let_create", "ty", lv, fi))
                              [] kw = "return" ->
                                   Call(Goto(m, "after_return"),
                                        SubFrame("compile_return", "start", lv, fi))
                              [] kw = "if" ->
                                   Call(Goto(m, "after"), IfFrame(lv, fi, FALSE))
                              [] kw = "while" ->
                                   Call(Goto(m, "after"), WhileFrame(lv, fi))
                              [] OTHER ->
                                   Call(Goto(Rewind(m), "after"), ExprFrame(lv, fi, "")))
               [] Top.pc = "after" -> Return(S, <<"bool", FALSE>>)
               [] Top.pc = "after_return" -> Return(S, <<"bool", ReturnDiverges>>))

(***************************************************************************)
(* compile_expression (lines 248-263).  `call` and `literal` hand the      *)
(* result of compile_fn_call / compile_literal through unchanged, so their *)
(* frame takes this one's place.                                           *)
(***************************************************************************)
compile_expression ==
    /\ Running /\ Ready /\ Top.f = "compile_expression"
    /\ Apply(CASE Top.pc = "start" ->
                    IF ~IsIdent THEN TokErr(S)
                    ELSE (CASE This.s = "call" ->
                                Replace(Next1(S),
                                        CallFrame(Top.lv, Top.fi, Top.ret_name))
                           [] This.s = "literal" ->
                                Replace(Next1(S),
                                        SubFrame("compile_literal", "ty", Top.lv, Top.fi))
                           [] OTHER ->
                                Goto([Next1(S) EXCEPT !.stack[Len(stack)].name = This.s],
                                     "var"))
               [] Top.pc = "var" ->
                    \* line 256: tokens.this()?.loc is evaluated before get_var
                    IF ~ThisOk THEN Fail(S, "UnexpectedEOF")
                    ELSE IF ~HasVar(S, Top.lv, Top.name) THEN Fail(S, "VariableError")
                    ELSE LET sym == get_var(S, Top.lv, Top.name)
                         IN IF sym.alloca
                            THEN Return(Emit(S, Top.fi, "load", <<sym.ty, sym.val>>),
                                        RegVal(nid))
                            ELSE Return(S, sym.val))

(***************************************************************************)
(* compile_return (lines 265-278)                                          *)
(***************************************************************************)
compile_return ==
    /\ Running /\ Ready /\ Top.f = "compile_return"
    /\ Apply(CASE Top.pc = "start" ->
                    IF ~IsIdent THEN TokErr(S)
                    ELSE IF This.s = "end"
                    THEN Return(Emit(Next1(S), Top.fi, "retvoid", <<>>), <<>>)
                    ELSE Call(Goto(Rewind(Next1(S)), "val"),
                              ExprFrame(Top.lv, Top.fi, ""))
               [] Top.pc = "val" ->
                    Return(Emit(S, Top.fi, "ret", <<ret>>), <<>>))

(***************************************************************************)
(* compile_let_create (lines 454-463), compile_var_create (465-479),       *)
(* compile_var_update (481-490)                                            *)
(***************************************************************************)
\* `let ty = ty_str_to_ty(&ident_next!(..))?; let name = ident_next!(..);`
TypeThenName(s) ==
    CASE Top.pc = "ty" ->
           IF ~IsIdent THEN TokErr(s)
           ELSE IF BadType(ty_str_to_ty(This.s)) THEN Fail(Next1(s), "ParseError")
           ELSE Goto([Next1(s) EXCEPT !.stack[Len(stack)].ty = ty_str_to_ty(This.s)],
                     "name")
      [] Top.pc = "name" ->
           IF ~IsIdent THEN TokErr(s)
           ELSE Goto([Next1(s) EXCEPT !.stack[Len(stack)].name = This.s], "kw")

compile_let_create ==
    /\ Running /\ Ready /\ Top.f = "compile_let_create"
    /\ Apply(CASE Top.pc \in {"ty", "name"} -> TypeThenName(S)
               [] Top.pc = "kw" ->
                    IF IsIdentOf("be")
                    THEN Call(Goto(Next1(S), "bind"), ExprFrame(Top.lv, Top.fi, Top.name))
                    ELSE TokErr(S)
               [] Top.pc = "bind" ->
                    Return([S EXCEPT !.envs[Top.lv] =
                                       Insert(@, Top.name, Sym(Top.ty, ret, FALSE))],
                           <<>>))

compile_var_create ==
    /\ Running /\ Ready /\ Top.f = "compile_var_create"
    /\ Apply(CASE Top.pc \in {"ty", "name"} -> TypeThenName(S)
               [] Top.pc = "kw" ->
                    IF IsIdentOf("is")
                    THEN Call(Goto(Next1(S), "bind"), ExprFrame(Top.lv, Top.fi, Top.name))
                    ELSE TokErr(S)
               [] Top.pc = "bind" ->
                    LET a == Emit(S, Top.fi, "alloca", <<Top.ty, Top.name>>)
                        st == Emit(a, Top.fi, "store", <<ret, RegVal(nid)>>)
                    IN Return([st EXCEPT !.envs[Top.lv] =
                                           Insert(@, Top.name,
                                                  Sym(Top.ty, RegVal(nid), TRUE))],
                              <<>>))

compile_var_update ==
    /\ Running /\ Ready /\ Top.f = "compile_var_update"
    /\ Apply(CASE Top.pc = "name" ->
                    IF ~IsIdent THEN TokErr(S)
                    ELSE Goto([Next1(S) EXCEPT !.stack[Len(stack)].name = This.s], "to")
               [] Top.pc = "to" ->
                    \* line 485 (this()?, then get_var), then expect_ident!("to")
                    IF ~ThisOk THEN Fail(S, "UnexpectedEOF")
                    ELSE IF ~HasVar(S, Top.lv, Top.name) THEN Fail(S, "VariableError")
                    ELSE IF ~IsIdentOf("to") THEN TokErr(S)
                    ELSE Call(Goto([Next1(S) EXCEPT !.stack[Len(stack)].slot =
                                        get_var(S, Top.lv, Top.name).val],
                                   "store"),
                              ExprFrame(Top.lv, Top.fi, Top.name))
               [] Top.pc = "store" ->
                    Return(Emit(S, Top.fi, "store", <<ret, Top.slot>>), <<>>))

(***************************************************************************)
(* What compile_while and compile_if share.                                *)
(***************************************************************************)
\* lines 296, 330, 348: `local_varmap.clone()`, a new map object
CloneEnv(s, lv) == [s EXCEPT !.envs = Append(@, s.envs[lv])]

\* the statements of a body or arm working on the enclosing map itself
BranchEnvShared(lv, clone) == lv

\* lines 303, 337, 352, 360: the map the statements of a body or arm work on
BranchEnv(lv, clone) == clone

\* lines 303-305, 337-339, 360-362: `if compile_statement(..)? { does_return = true }`
DoesReturn(does_return, r) == does_return \/ r

\* the branch built whether or not the arm returned
ArmBranchAlways(s, fi, does_return, target) == Emit(s, fi, "br", <<target>>)

\* lines 310-312, 343-345, 368-370: `if !does_return { LLVMBuildBr(target) }`
ArmBranch(s, fi, does_return, target) ==
    IF ~does_return THEN Emit(s, fi, "br", <<target>>) ELSE s

\* the cursor left where the recursive compile_if put it
ElifNoRewind(s) == s

\* line 353: `tokens.index -= 1` after the recursive compile_if of an elif
ElifRewind(s) == Rewind(s)

NBlocks(s, fi) == Len(s.funcs[fi].blocks)
Position(s, b) == [s EXCEPT !.bpos = b]

(***************************************************************************)
(* compile_while (lines 280-316)                                           *)
(***************************************************************************)
compile_while ==
    /\ Running /\ Ready /\ Top.f = "compile_while"
    /\ Apply(CASE Top.pc = "start" ->
                    LET n == NBlocks(S, Top.fi)
                        b == AppendBlock(AppendBlock(AppendBlock(S, Top.fi, "cond"),
                                                     Top.fi, "body"),
                                         Top.fi, "whilecont")
                        e == Position(Emit(b, Top.fi, "br", <<n + 1>>), n + 1)
                        fr == [Top EXCEPT !.cond_block = n + 1, !.body_block = n + 2,
                                          !.continue_block = n + 3, !.pc = "do"]
                    IN Call([e EXCEPT !.stack[Len(stack)] = fr],
                            ExprFrame(Top.lv, Top.fi, ""))
               [] Top.pc = "do" ->
                    IF ~IsIdentOf("do") THEN TokErr(S)
                    ELSE LET c == Emit(Next1(S), Top.fi, "condbr",
                                       <<ret, Top.body_block, Top.continue_block>>)
                             e == CloneEnv(Position(c, Top.body_block), Top.lv)
                         IN [e EXCEPT !.stack[Len(stack)] =
                                        [Top EXCEPT !.body_lv = Len(e.envs),
                                                    !.does_return = FALSE,
                                                    !.pc = "body0"]]
               [] Top.pc \in {"body0", "body"} ->
                    LET d == IF Top.pc = "body" THEN DoesReturn(Top.does_return, ret[2])
                             ELSE Top.does_return
                    IN IF ~IsIdent THEN TokErr(S)
                       ELSE IF This.s # "end"
                       THEN Call([S EXCEPT !.stack[Len(stack)] =
                                             [Top EXCEPT !.does_return = d,
                                                         !.body_at = Append(@, index),
                                                         !.pc = "body"]],
                                 StatementFrame(BranchEnv(Top.lv, Top.body_lv), Top.fi))
                       ELSE LET b == ArmBranch(Next1(S), Top.fi, d, Top.cond_block)
                                sum == [Top EXCEPT !.does_return = d,
                                                   !.body_env = envs[Top.body_lv]]
                            IN Return([Position(b, Top.continue_block) EXCEPT
                                         !.envs = SubSeq(@, 1, Top.body_lv - 1),
                                         !.stack[Len(stack)] = sum],
                                      <<>>))

(***************************************************************************)
(* compile_if (lines 318-374)                                              *)
(***************************************************************************)
ChainLink(fr, closeAt) ==
    [cond_at |-> fr.cond_at, then_block |-> fr.then_block,
     else_block |-> fr.else_block, cont_at |-> fr.cont_at, close |-> closeAt]

\* lines 367-373, with the else-arm's does_return d
IfFinish(s, d, closeAt, rest) ==
    LET fr == Last(s.stack)
        b == ArmBranch(s, fr.fi, d, fr.continue_block)
        sum == [fr EXCEPT !.close = closeAt, !.else_end = s.bpos,
                          !.does_return = d,
                          !.then_env = s.envs[fr.then_lv],
                          !.else_env = s.envs[fr.else_lv],
                          !.chain = <<ChainLink(fr, closeAt)>> \o rest]
    IN Return([Position(b, fr.continue_block) EXCEPT
                 !.envs = SubSeq(@, 1, fr.then_lv - 1),
                 !.stack[Len(s.stack)] = sum],
              <<>>)

\* lines 341-349: the continuator is read, the then-arm closed, the else block entered
IfContinue(s, d) ==
    LET fr == Last(s.stack)
        n == Next1(s)
        b == ArmBranch(n, fr.fi, d, fr.continue_block)
        e == CloneEnv(Position(b, fr.else_block), fr.lv)
    IN [e EXCEPT !.stack[Len(s.stack)] =
                   [fr EXCEPT !.continuator = This.s, !.cont_at = s.index,
                              !.then_end = s.bpos, !.else_lv = Len(e.envs),
                              !.does_return = FALSE]]

compile_if ==
    /\ Running /\ Ready /\ Top.f = "compile_if"
    /\ Apply(CASE Top.pc = "start" ->
                    Call(Goto(S, "do"), ExprFrame(Top.lv, Top.fi, ""))
               [] Top.pc = "do" ->
                    IF ~IsIdentOf("do") THEN TokErr(S)
                    ELSE LET n == NBlocks(S, Top.fi)
                             b == AppendBlock(AppendBlock(AppendBlock(Next1(S), Top.fi,
                                                                      "then"),
                                                          Top.fi, "else"),
                                              Top.fi, "ifcont")
                             c == Emit(b, Top.fi, "condbr", <<ret, n + 1, n + 2>>)
                             e == CloneEnv(Position(c, n + 1), Top.lv)
                         IN [e EXCEPT !.stack[Len(stack)] =
                                        [Top EXCEPT !.cond_val = ret,
                                                    !.then_block = n + 1,
                                                    !.else_block = n + 2,
                                                    !.continue_block = n + 3,
                                                    !.cond_at = bpos,
                                                    !.then_lv = Len(e.envs),
                                                    !.does_return = FALSE,
                                                    !.pc = "then0"]]
               [] Top.pc \in {"then0", "then"} ->
                    LET d == IF Top.pc = "then" THEN DoesReturn(Top.does_return, ret[2])
                             ELSE Top.does_return
                    IN IF ~IsIdent THEN TokErr(S)
                       ELSE IF This.s \notin {"end", "else", "elif"}
                       THEN Call([S EXCEPT !.stack[Len(stack)] =
                                             [Top EXCEPT !.does_return = d,
                                                         !.then_at = Append(@, index),
                                                         !.pc = "then"]],
                                 StatementFrame(BranchEnv(Top.lv, Top.then_lv), Top.fi))
                       ELSE LET c == IfContinue(S, d)
                                fr == Last(c.stack)
                            IN (CASE This.s = "end" -> IfFinish(c, FALSE, index, <<>>)
                                 [] This.s = "elif" ->
                                      Call(Goto(c, "elif_ret"),
                                           IfFrame(BranchEnv(fr.lv, fr.else_lv), fr.fi,
                                                   TRUE))
                                 [] This.s = "else" -> Goto(c, "else0"))
               [] Top.pc = "elif_ret" ->
                    \* lines 353 and 365
                    LET r == ElifRewind(S)
                    IN IF r.index >= Len(tokens) THEN Fail(S, "UnexpectedEOF")
                       ELSE IF tokens[r.index + 1] # Id("end") THEN Fail(S, "ParseError")
                       ELSE IfFinish(Next1(r), FALSE, r.index, last.chain)
               [] Top.pc \in {"else0", "else"} ->
                    LET de == IF Top.pc = "else" THEN DoesReturn(Top.does_return, ret[2])
                              ELSE Top.does_return
                    IN IF ~IsIdent THEN TokErr(S)
                       ELSE IF This.s # "end"
                       THEN Call([S EXCEPT !.stack[Len(stack)] =
                                             [Top EXCEPT !.does_return = de,
                                                         !.else_at = Append(@, index),
                                                         !.pc = "else"]],
                                 StatementFrame(BranchEnv(Top.lv, Top.else_lv), Top.fi))
                       ELSE IfFinish(Next1(S), de, index, <<>>))

(***************************************************************************)
(* compile_fn_call (lines 376-430)                                         *)
(***************************************************************************)
\* line 384: `while let TokenType::Particle(p, true) = tokens.this()?.tt`
Coalesces(tok) == tok.k = "Particle" /\ tok.j = TRUE

Operators == {"+", "-", "*", "/", "&", "|", ">", ">=", "<", "<=", "==", "!="}

\* lines 408-422
OpInstr(name) ==
    CASE name = "+" -> "add"
      [] name = "-" -> "sub"
      [] name = "*" -> "mul"
      [] name = "/" -> "sdiv"
      [] name = "&" -> "and"
      [] name = "|" -> "or"
      [] name = ">" -> "icmp sgt"
      [] name = ">=" -> "icmp sge"
      [] name = "<" -> "icmp slt"
      [] name = "<=" -> "icmp sle"
      [] name = "==" -> "icmp eq"
      [] name = "!=" -> "icmp ne"

\* lines 392-394: the callee has been read; `with` opens the argument list
CallAfterName(s) ==
    IF ~IsIdent THEN TokErr(s)
    ELSE IF This.s = "with" THEN Goto(Next1(s), "args0")
    ELSE Goto(Next1(s), "emit")

\* lines 404-424: the operator form
EmitOperator(s, fr) ==
    IF Len(fr.args) = 0 THEN Panic(s, "expect: no arg 1 for bin op")
    ELSE IF Len(fr.args) = 1 THEN Panic(s, "expect: no arg 2 for binary op")
    ELSE IF fr.name \notin Operators THEN Panic(s, "unreachable: unknown literal func")
    ELSE LET b == fr.args[Len(fr.args)]
             a == fr.args[Len(fr.args) - 1]
         IN Return(Emit(s, fr.fi, OpInstr(fr.name), <<a, b>>), RegVal(s.nid))

\* lines 425-428: the named form
EmitCall(s, fr) ==
    IF ~ThisOk THEN Fail(s, "UnexpectedEOF")
    ELSE IF ~HasVar(s, fr.lv, fr.name) THEN Fail(s, "VariableError")
    ELSE LET fun == get_var(s, fr.lv, fr.name)
         IN Return(Emit(s, fr.fi, "call", <<fun.ty, fun.val, fr.args>>), RegVal(s.nid))

compile_fn_call ==
    /\ Running /\ Ready /\ Top.f = "compile_fn_call"
    /\ Apply(CASE Top.pc = "start" ->
                    IF ~ThisOk THEN Fail(S, "UnexpectedEOF")
                    ELSE IF This.k = "Particle"
                    THEN Goto([Next1(S) EXCEPT !.stack[Len(stack)] =
                                  [Top EXCEPT !.particle = TRUE, !.name = This.s,
                                              !.at = index]],
                              "op")
                    ELSE IF ~IsIdent THEN TokErr(S)
                    ELSE Goto([Next1(S) EXCEPT !.stack[Len(stack)].name = This.s], "n")
               [] Top.pc = "op" ->
                    IF ~ThisOk THEN Fail(S, "UnexpectedEOF")
                    ELSE IF Coalesces(This)
                    THEN [Next1(S) EXCEPT !.stack[Len(stack)].name = @ \o This.s]
                    ELSE CallAfterName(S)
               [] Top.pc = "n" -> CallAfterName(S)
               [] Top.pc \in {"args0", "args"} ->
                    LET a == IF Top.pc = "args" THEN Append(Top.args, ret) ELSE Top.args
                    IN IF ~IsIdent THEN TokErr(S)
                       ELSE IF This.s # "end"
                       THEN Call([Rewind(Next1(S)) EXCEPT !.stack[Len(stack)] =
                                    [Top EXCEPT !.args = a, !.pc = "args",
                                                !.arg_at = Append(@, index)]],
                                 ExprFrame(Top.lv, Top.fi, ""))
                       ELSE [Next1(S) EXCEPT !.stack[Len(stack)] =
                                [Top EXCEPT !.args = a, !.pc = "emit"]]
               [] Top.pc = "emit" ->
                    IF Top.particle THEN EmitOperator(S, Top) ELSE EmitCall(S, Top))

(***************************************************************************)
(* compile_literal (lines 432-452)                                         *)
(***************************************************************************)
\* line 446: `i as c_ulonglong`, the low 64 bits of the i128
AsULongLong(bits) == {b \in bits : b < 64}

\* LLVMConstInt(ty, n, 0) for an integer type: n truncated or zero-extended
LLVMConstInt(ty, n) == ConstInt(ty, {b \in n : b < ty[2]})

\* line 446
IntegerConstant(ty, bits) == LLVMConstInt(ty, AsULongLong(bits))

\* `crashes` chooses what LLVMConstInt does when handed a type that is no
\* integer type (undefined behaviour of the C API): abort, or some value.
compile_literal_step(crashes) ==
    CASE Top.pc = "ty" ->
           IF ~IsIdent THEN TokErr(S)
           ELSE IF BadType(ty_str_to_ty(This.s)) THEN Fail(Next1(S), "ParseError")
           ELSE Goto([Next1(S) EXCEPT !.stack[Len(stack)].ty = ty_str_to_ty(This.s)],
                     "val")
      [] Top.pc = "val" ->
           IF ~ThisOk THEN Fail(S, "UnexpectedEOF")
           ELSE IF ~IsLiteral(This) THEN Panic(S, "literal value is not a literal value")
           ELSE LET v == [Next1(S) EXCEPT !.stack[Len(stack)].value = This]
                IN
                CASE This.k = "String" ->
                       Return([v EXCEPT
                                 !.globals = Append(@, [name |-> "", val |-> This.s])],
                              GlobalStr(Len(globals) + 1))
                  [] This.k = "Char" -> Panic(v, "unimplemented")
                  [] This.k = "Float" -> Panic(v, "unimplemented")
                  [] This.k = "Integer" ->
                       IF IsIntTy(Top.ty)
                       THEN Return(v, IntegerConstant(Top.ty, This.bits))
                       ELSE IF crashes THEN Panic(v, "LLVMConstInt: not an integer type")
                       ELSE Return(v, UndefVal)
                  [] This.k = "Bool" ->
                       Return(v,
                              LLVMConstInt(IntTy(1), IF This.j THEN {0} ELSE {}))

compile_literal ==
    /\ Running /\ Ready /\ Top.f = "compile_literal"
    /\ \E crashes \in BOOLEAN : Apply(compile_literal_step(crashes))

(***************************************************************************)
(* The input.  A stream is a concatenation of fragments of one vocabulary; *)
(* the vocabularies hold well-formed and ill-formed pieces of programs.    *)
(***************************************************************************)
Words(ws) == [i \in 1..Len(ws) |-> Id(ws[i])]

\* i128 bit patterns of the integer literals: 1, 255, 256, 2^32, 2^63, 2^64,
\* 2^64 + 1, -2^127 and -1
IntegerValues ==
    <<{0}, 0..7, {8}, {32}, {63}, {64}, {0, 64}, {127}, 0..127>>

TopLevelVocabulary ==
    << Words(<<"fn", "main", "do">>),
       Words(<<"fn", "f", "i32", "with", "i32", "a", "do">>),
       Words(<<"fn", "g", "with", "zz", "a", "do">>),
       Words(<<"extern", "fn", "main", "with", "vararg", "ptr", "p", "do">>),
       Words(<<"extern", "fn", "h", "zz", "end">>),
       Words(<<"const", "ptr", "main", "is">>) \o <<StringLit("s")>>,
       Words(<<"end">>),
       Words(<<"return", "end">>),
       Words(<<"return", "a">>),
       Words(<<"call", "a", "end">>),
       Words(<<"call", "main", "end">>),
       Words(<<"call", "f", "with", "a", "end">>) >>

ControlVocabulary ==
    << Words(<<"fn", "main", "with", "bool", "a", "do">>),
       Words(<<"if", "a", "do">>),
       Words(<<"elif", "a", "do">>),
       Words(<<"else">>),
       Words(<<"end">>),
       Words(<<"while", "a", "do">>),
       Words(<<"return", "end">>),
       Words(<<"let", "i32", "x", "be", "a">>),
       Words(<<"var", "bool", "a", "is", "a">>) >>

OperatorHead(callee) ==
    Words(<<"fn", "main", "i32", "with", "i32", "a", "i32", "b", "do", "return",
            "call">>) \o callee

OperatorVocabulary ==
    << OperatorHead(<<Particle(">", TRUE), Particle("=", FALSE), Id("with")>>),
       OperatorHead(<<Particle(">", FALSE), Particle("=", TRUE), Id("with")>>),
       OperatorHead(<<Particle("=", TRUE), Particle("=", TRUE), Id("with")>>),
       OperatorHead(<<Particle(">", FALSE), Id("with")>>),
       OperatorHead(<<Particle("-", TRUE), Id("with")>>),
       OperatorHead(<<Particle("=", FALSE), Id("with")>>),
       OperatorHead(<<Particle("+", FALSE), Id("end")>>),
       Words(<<"a">>),
       Words(<<"a", "b">>),
       Words(<<"call", "main", "with", "a", "b", "end">>),
       Words(<<"update", "a", "to", "b">>),
       Words(<<"end">>) >>

LiteralHead(ty) == Words(<<"fn", "main", "do", "return", "literal", ty>>)

LiteralVocabulary ==
    << LiteralHead("i8"), LiteralHead("i32"), LiteralHead("i64"),
       LiteralHead("i128"), LiteralHead("ptr"), LiteralHead("zz"),
       <<CharLit>>, <<FloatLit>>, <<StringLit("s")>>, <<BoolLit(TRUE)>>,
       Words(<<"a">>),
       Words(<<"end">>) >>
    \o [i \in 1..Len(IntegerValues) |-> <<IntegerLit(IntegerValues[i])>>]

Vocabulary(v) ==
    CASE v = 1 -> TopLevelVocabulary
      [] v = 2 -> ControlVocabulary
      [] v = 3 -> OperatorVocabulary
      [] v = 4 -> LiteralVocabulary

\* The lexer delivers the next fragment of the stream ...
LexFragment ==
    /\ outcome = "running" /\ ~Ready
    /\ nfrag < MaxFragments
    /\ \E i \in 1..Len(Vocabulary(vocab)) : tokens' = tokens \o Vocabulary(vocab)[i]
    /\ nfrag' = nfrag + 1
    /\ UNCHANGED <<eof, vocab, index, hiwater, stack, ret, last, varmap, envs,
                   funcs, globals, bpos, nid, outcome, error>>

\* ... or the stream ends here.
LexEnd ==
    /\ outcome = "running" /\ ~Ready
    /\ eof' = TRUE
    /\ UNCHANGED <<tokens, nfrag, vocab, index, hiwater, stack, ret, last, varmap,
                   envs, funcs, globals, bpos, nid, outcome, error>>

(***************************************************************************)
(* compile's state at line 57: the module holds the entry function `main`  *)
(* of type void() with its empty entry block, the cursor is at 0.          *)
(***************************************************************************)
Init ==
    /\ vocab \in 1..4
    /\ tokens = <<>>
    /\ eof = FALSE
    /\ nfrag = 0
    /\ index = 0
    /\ hiwater = 0
    /\ stack = <<[f |-> "compile", pc |-> "loop", form_at |-> <<>>]>>
    /\ ret = <<>>
    /\ last = [f |-> "", pc |-> ""]
    /\ varmap = EmptyMap
    /\ envs = <<>>
    /\ funcs = <<[name |-> "main", ty |-> FnTy(VoidTy, <<>>, FALSE),
                  blocks |-> EntryBlock]>>
    /\ globals = <<>>
    /\ bpos = 1
    /\ nid = 1
    /\ outcome = "running"
    /\ error = ""

Next ==
    \/ LexFragment
    \/ LexEnd
    \/ compile
    \/ compile_global_const
    \/ fn_sig
    \/ compile_extern
    \/ compile_fn
    \/ compile_statement
    \/ compile_expression
    \/ compile_return
    \/ compile_let_create
    \/ compile_var_create
    \/ compile_var_update
    \/ compile_while
    \/ compile_if
    \/ compile_fn_call
    \/ compile_literal

Spec == Init /\ [][Next]_vars

(***************************************************************************)
(* compile is one thread that runs until it returns or panics, and the     *)
(* lexer has handed over a finite stream: whatever step is possible is     *)
(* eventually taken.  LiveInit is Init with room for MaxLiveFragments      *)
(* fragments.                                                              *)
(***************************************************************************)
LiveInit ==
    /\ vocab \in 1..4
    /\ tokens = <<>>
    /\ eof = FALSE
    /\ nfrag = MaxFragments - MaxLiveFragments
    /\ index = 0
    /\ hiwater = 0
    /\ stack = <<[f |-> "compile", pc |-> "loop", form_at |-> <<>>]>>
    /\ ret = <<>>
    /\ last = [f |-> "", pc |-> ""]
    /\ varmap = EmptyMap
    /\ envs = <<>>
    /\ funcs = <<[name |-> "main", ty |-> FnTy(VoidTy, <<>>, FALSE),
                  blocks |-> EntryBlock]>>
    /\ globals = <<>>
    /\ bpos = 1
    /\ nid = 1
    /\ outcome = "running"
    /\ error = ""

FairSpec == LiveInit /\ [][Next]_vars /\ WF_vars(Next)

(***************************************************************************)
(*                              The claims                                 *)
(***************************************************************************)
Instrs(fi, b) == funcs[fi].blocks[b].instrs

\* the positions <<function, block, instruction>> of the module's instructions
InstrAt ==
    UNION {UNION {{<<f, b, i>> : i \in 1..Len(Instrs(f, b))} :
                  b \in 1..Len(funcs[f].blocks)} :
           f \in 1..Len(funcs)}

\* some statement that starts at one of `starts` is a `return` statement
ArmReturns(starts) ==
    \E i \in 1..Len(starts) : tokens[starts[i] + 1] = Id("return")

\* the last instruction of block b is the unconditional branch to `target`
EndsWithBr(fi, b, target) ==
    /\ Instrs(fi, b) # <<>>
    /\ Last(Instrs(fi, b)).op = "br"
    /\ Last(Instrs(fi, b)).args = <<target>>

BranchesTo(fi, target) ==
    {p \in InstrAt : /\ p[1] = fi
                     /\ Instrs(fi, p[2])[p[3]].op = "br"
                     /\ Instrs(fi, p[2])[p[3]].args = <<target>>}

\* C1: in every accepted compile the module was asked for exactly one function
\* named `main`, of type void(), whose single block is the call of the
\* user-defined `main` followed by ret-void.
C1_OneFunctionNamedMain ==
    outcome = "ok" =>
        /\ Cardinality({i \in 1..Len(funcs) : funcs[i].name = "main"}) = 1
        /\ funcs[1].ty = FnTy(VoidTy, <<>>, FALSE)
        /\ Len(funcs[1].blocks) = 1
        /\ Len(Instrs(1, 1)) = 2
        /\ Instrs(1, 1)[1].op = "call"
        /\ Instrs(1, 1)[1].args[2] = varmap["main"].val
        /\ Instrs(1, 1)[2].op = "retvoid"

\* C2: compile ends with a module or with an error value handed to its caller;
\* it never ends abnormally.
C2_NeverAborts == outcome \in {"running", "ok", "err"}

\* C4: at the closing `end` of a function without a declared return type,
\* compile_fn appends a ret-void exactly when the body does not end with a
\* `return` statement; an empty body gives an entry block that is one ret-void.
C4_ImplicitRetOnlyWithoutReturn ==
    (outcome = "running" /\ Top.f = "compile" /\ last.f = "compile_fn"
        /\ last.ty = <<>>) =>
        LET endsWithReturn ==
                /\ last.body_at # <<>>
                /\ tokens[Last(last.body_at) + 1] = Id("return")
        IN /\ nid - last.end_nid = IF endsWithReturn THEN 0 ELSE 1
           /\ last.body_at = <<>> =>
                  /\ Len(Instrs(last.fi, 1)) = 1
                  /\ Instrs(last.fi, 1)[1].op = "retvoid"

\* C6: the operator string read by compile_fn_call is the first particle's
\* character followed by the character of each directly following Particle
\* for which the joined flag of the particle before it is true.
RECURSIVE JoinedOperator(_)
JoinedOperator(p) ==
    IF tokens[p].j /\ p < Len(tokens) /\ tokens[p + 1].k = "Particle"
    THEN tokens[p].s \o JoinedOperator(p + 1)
    ELSE tokens[p].s

C6_OperatorJoinedByPrecedingFlag ==
    (Running /\ Top.f = "compile_fn_call" /\ Top.pc = "op" /\ ThisOk
        /\ ~Coalesces(This)) =>
        Top.name = JoinedOperator(Top.at + 1)

\* C7: an operator call evaluates exactly two argument expressions and emits
\* one instruction of the operator's opcode, the first parsed argument its left
\* operand and the last parsed argument its right operand.
C7_OperatorTakesTwoArguments ==
    (last.f = "compile_fn_call" /\ last.particle) =>
        /\ Len(last.args) = 2
        /\ \E p \in InstrAt :
              LET i == Instrs(p[1], p[2])[p[3]]
              IN /\ RegVal(i.id) = ret
                 /\ i.op = OpInstr(last.name)
                 /\ i.args = <<last.args[1], last.args[Len(last.args)]>>

\* C8: `literal <type> <integer>` with an integer type of width w gives the
\* constant whose bits are those of the i128 value modulo 2^w.
C8_IntegerLiteralModuloWidth ==
    (last.f = "compile_literal" /\ last.value.k = "Integer" /\ IsIntTy(last.ty)
        /\ last.ty[2] \in {8, 32, 64, 128}) =>
        ret = ConstInt(last.ty, {b \in last.value.bits : b < last.ty[2]})

\* C9: the callee of every emitted call is a function bound by `fn` or
\* `extern`, and the call carries that function's recorded function type.
C9_CalleeIsFunction ==
    \A p \in InstrAt :
        LET i == Instrs(p[1], p[2])[p[3]]
        IN i.op = "call" =>
              /\ IsFnTy(i.args[1])
              /\ i.args[2][1] = "fn"
              /\ funcs[i.args[2][2]].ty = i.args[1]

\* a control statement has just returned to the statement that started it
AfterControl(kws) ==
    /\ Running
    /\ Top.f = "compile_statement"
    /\ Top.pc = "after"
    /\ Top.kw \in kws

\* C3: when an `if` (with any elif/else arms) or a `while` statement has been
\* compiled, the enclosing local environment and the global environment are
\* exactly what they were when the statement started.
C3_ControlLeavesEnvironments ==
    AfterControl({"if", "while"}) =>
        /\ envs[Top.lv] = Top.env0
        /\ varmap = Top.varmap0

\* C3 witness: an `if` whose then-arm bound the new name x has returned, and x
\* is not bound in the enclosing environment.
C3_Witness ==
    /\ AfterControl({"if"})
    /\ "x" \in DOMAIN last.then_env
    /\ "x" \notin DOMAIN envs[Top.lv]

\* C5: for the then-arm and the else-arm of a compiled `if` independently, the
\* arm's last block ends with the branch to the continuation block exactly when
\* none of the arm's statements was a `return`; there is no other branch to the
\* continuation block; and the else block of an empty `else` arm holds that
\* branch alone.
C5_ArmBranchesUnlessReturned ==
    last.f = "compile_if" =>
        LET fi == last.fi
            cont == last.continue_block
            thenR == ArmReturns(last.then_at)
            elseR == ArmReturns(last.else_at)
        IN /\ EndsWithBr(fi, last.then_end, cont) <=> ~thenR
           /\ EndsWithBr(fi, last.else_end, cont) <=> ~elseR
           /\ Cardinality(BranchesTo(fi, cont)) =
                  (IF thenR THEN 0 ELSE 1) + (IF elseR THEN 0 ELSE 1)
           /\ (last.continuator = "else" /\ last.else_at = <<>>) =>
                  /\ Len(Instrs(fi, last.else_block)) = 1
                  /\ EndsWithBr(fi, last.else_block, cont)

\* C5 witness: an `if` whose then-arm and else-arm both hold a `return` has
\* been compiled without any branch to its continuation block.
C5_Witness ==
    /\ last.f = "compile_if"
    /\ ArmReturns(last.then_at)
    /\ ArmReturns(last.else_at)
    /\ BranchesTo(last.fi, last.continue_block) = {}

\* the conditional branches of the function whose targets are the then and else
\* blocks of a link of the chain
ChainCondBrs(fi, ch) ==
    {p \in InstrAt :
        /\ p[1] = fi
        /\ Instrs(fi, p[2])[p[3]].op = "condbr"
        /\ \E i \in 1..Len(ch) :
              /\ Instrs(fi, p[2])[p[3]].args[2] = ch[i].then_block
              /\ Instrs(fi, p[2])[p[3]].args[3] = ch[i].else_block}

\* C10: an if/elif chain is closed by one `end`: all its levels close at the
\* same `end` token, the cursor is left right after it, the `end` each elif
\* level expects after its recursive call is the one the call consumed, and the
\* chain of k elif arms has k+1 conditional branches, each at the end of the
\* else block of the previous one.
C10_ChainClosedByOneEnd ==
    /\ (Running /\ Top.f = "compile_if" /\ Top.pc = "elif_ret") =>
           /\ index >= 1
           /\ tokens[index] = Id("end")
    /\ AfterControl({"if"}) =>
           LET ch == last.chain
               n == Len(ch)
           IN /\ n >= 1
              /\ index = last.close + 1
              /\ tokens[last.close + 1] = Id("end")
              /\ \A i \in 1..n : ch[i].close = last.close
              /\ \A i \in 1..(n - 1) : tokens[ch[i].cont_at + 1] = Id("elif")
              /\ tokens[ch[n].cont_at + 1] \in {Id("end"), Id("else")}
              /\ Cardinality(ChainCondBrs(last.fi, ch)) = n
              /\ \A i \in 1..n :
                    /\ Instrs(last.fi, ch[i].cond_at) # <<>>
                    /\ Last(Instrs(last.fi, ch[i].cond_at)).op = "condbr"
                    /\ Last(Instrs(last.fi, ch[i].cond_at)).args[2] = ch[i].then_block
                    /\ Last(Instrs(last.fi, ch[i].cond_at)).args[3] = ch[i].else_block
              /\ \A i \in 2..n : ch[i].cond_at = ch[i - 1].else_block

\* C10 witness: a chain of an `if` and two `elif` arms has been compiled.
C10_Witness ==
    /\ AfterControl({"if"})
    /\ Len(last.chain) = 3

Terminators == {"ret", "retvoid", "br", "condbr"}

\* C11: after a successful compile every basic block of every defined function
\* ends in a terminator, and that terminator is the block's only one (nothing
\* was emitted into the block after it).
C11_BlocksEndInOneTerminator ==
    outcome = "ok" =>
        \A f \in 1..Len(funcs) : \A b \in 1..Len(funcs[f].blocks) :
            /\ Instrs(f, b) # <<>>
            /\ Last(Instrs(f, b)).op \in Terminators
            /\ \A i \in 1..(Len(Instrs(f, b)) - 1) :
                  Instrs(f, b)[i].op \notin Terminators

\* where the iterations of the loop a frame runs started: top-level forms,
\* body statements, parameters, call arguments
LoopStarts(fr) ==
    CASE fr.f = "compile" -> fr.form_at
      [] fr.f \in {"compile_fn", "compile_while"} -> fr.body_at
      [] fr.f = "compile_if" /\ fr.pc = "then" -> fr.then_at
      [] fr.f = "compile_if" /\ fr.pc = "else" -> fr.else_at
      [] fr.f \in {"fn_sig", "compile_fn_call"} -> fr.arg_at
      [] OTHER -> <<>>

\* the frame stands where its loop decides on one more iteration
AtLoopHead(fr) ==
    <<fr.f, fr.pc>> \in {<<"compile", "loop">>, <<"compile_fn", "body">>,
                         <<"compile_while", "body">>, <<"compile_if", "then">>,
                         <<"compile_if", "else">>, <<"fn_sig", "argty">>,
                         <<"compile_fn_call", "args">>}

\* an iteration that did not fail left the cursor beyond where it started
LoopsAdvance ==
    (Running /\ AtLoopHead(Top) /\ LoopStarts(Top) # <<>>) =>
        index > Last(LoopStarts(Top))

\* the cursor is inside the stream, at most one token behind the furthest
\* position it has had
CursorNearFurthest ==
    /\ 0 <= index
    /\ index <= hiwater
    /\ hiwater <= index + 1
    /\ hiwater <= Len(tokens)

\* one more particle coalesced moves the cursor on
ParticleLoopAdvances ==
    (/\ Running /\ Top.f = "compile_fn_call" /\ Top.pc = "op"
     /\ outcome' = "running"
     /\ Len(stack') = Len(stack)
     /\ stack'[Len(stack)].pc = "op") => index' > index

\* the places inside a production where the code goes on with tokens.this()?,
\* directly or through ident_next! / expect_ident!
ReadsToken(fr) ==
    \/ fr.f \in {"compile_global_const", "fn_sig"}
    \/ <<fr.f, fr.pc>> \in
          {<<"compile_extern", "extern">>, <<"compile_fn", "body">>,
           <<"compile_statement", "start">>, <<"compile_expression", "start">>,
           <<"compile_expression", "var">>, <<"compile_return", "start">>,
           <<"compile_let_create", "ty">>, <<"compile_let_create", "name">>,
           <<"compile_let_create", "kw">>, <<"compile_var_create", "ty">>,
           <<"compile_var_create", "name">>, <<"compile_var_create", "kw">>,
           <<"compile_var_update", "name">>, <<"compile_var_update", "to">>,
           <<"compile_while", "do">>, <<"compile_while", "body0">>,
           <<"compile_while", "body">>, <<"compile_if", "do">>,
           <<"compile_if", "then0">>, <<"compile_if", "then">>,
           <<"compile_if", "else0">>, <<"compile_if", "else">>,
           <<"compile_fn_call", "start">>, <<"compile_fn_call", "op">>,
           <<"compile_fn_call", "n">>, <<"compile_fn_call", "args0">>,
           <<"compile_fn_call", "args">>, <<"compile_literal", "ty">>,
           <<"compile_literal", "val">>}
    \/ fr.f = "compile_fn_call" /\ fr.pc = "emit" /\ ~fr.particle

\* with the cursor at the end of the stream, a read inside a production ends
\* the compile with the end-of-stream error, and no other step moves the
\* cursor on
EndOfStreamInProduction ==
    (Running /\ eof /\ ~ThisOk /\ Len(stack) > 1) =>
        IF ReadsToken(Top)
        THEN outcome' = "err" /\ error' = "UnexpectedEOF"
        ELSE index' <= index

\* C12: on every finite token stream compile ends; meanwhile every iteration
\* of a parsing loop that does not fail moves the cursor forward, the cursor
\* is never below 0 nor more than one token behind the furthest position it
\* has had, and reading at the end of the stream inside a production ends the
\* compile with the end-of-stream error.
C12_TerminatesCursorAdvancing ==
    /\ [](LoopsAdvance /\ CursorNearFurthest)
    /\ [][ParticleLoopAdvances /\ EndOfStreamInProduction]_vars
    /\ <>(outcome # "running")

\* C12 witness: a compile that has gone round a statement loop and rewound
\* the cursor on the way has ended at the end of the stream with the
\* end-of-stream error.
C12_Witness ==
    /\ outcome = "err"
    /\ error = "UnexpectedEOF"
    /\ index = Len(tokens)
    /\ index > 0
    /\ last.f = "compile_statement"

====
